---- MODULE Spec2Model ----
(***************************************************************************)
(* ADAM alert generator (src/app.py): the alert lifecycle.  One event loop *)
(* runs the request handlers and the auto-resolve tasks; a handler has no  *)
(* await in it, so each handler is one atomic step, and an auto-resolve    *)
(* task is cut at its two awaits (the duration sleep, the one-second       *)
(* sleep before the file is removed).                                      *)
(*                                                                         *)
(* Text is modelled as a tuple of one-character strings so that strip(),   *)
(* endswith() and int() are computed as Python computes them.              *)
(***************************************************************************)
EXTENDS Integers, Sequences, FiniteSets, TLC

\* ---- bounds of the model ------------------------------------------------
MaxAlerts == 2         \* alert ids handed out in one behaviour
MaxManualCalls == 1    \* resolve requests handlers issue per alert id
MaxCount == 2          \* largest count given to bulk generate

\* ---- text ---------------------------------------------------------------
Whitespace == {" "}

Digits == {"0", "1", "2", "3", "4", "5", "6", "7", "8", "9"}

DigitVal(c) ==
    CASE c = "0" -> 0 [] c = "1" -> 1 [] c = "2" -> 2 [] c = "3" -> 3
      [] c = "4" -> 4 [] c = "5" -> 5 [] c = "6" -> 6 [] c = "7" -> 7
      [] c = "8" -> 8 [] c = "9" -> 9

RECURSIVE lstrip(_)
lstrip(s) == IF s # <<>> /\ Head(s) \in Whitespace THEN lstrip(Tail(s)) ELSE s

RECURSIVE rstrip(_)
rstrip(s) ==
    IF s # <<>> /\ s[Len(s)] \in Whitespace
    THEN rstrip(SubSeq(s, 1, Len(s) - 1))
    ELSE s

\* str.strip()
strip(s) == rstrip(lstrip(s))

\* str.endswith(c) for a one-character suffix
endswith(s, c) == s # <<>> /\ s[Len(s)] = c

\* s[:-1]
butlast(s) == IF s = <<>> THEN <<>> ELSE SubSeq(s, 1, Len(s) - 1)

RECURSIVE DecimalValue(_)
DecimalValue(s) ==
    IF s = <<>> THEN 0 ELSE 10 * DecimalValue(butlast(s)) + DigitVal(s[Len(s)])

\* int(text): surrounding whitespace is ignored, one sign is allowed, the
\* rest must be decimal digits; anything else raises ValueError.
int(text) ==
    LET t == strip(text)
        signed == t # <<>> /\ Head(t) \in {"+", "-"}
        body == IF signed THEN Tail(t) ELSE t
        ok == body # <<>> /\ \A i \in 1..Len(body) : body[i] \in Digits
    IN  IF ok
        THEN [raised |-> FALSE,
              value |-> IF signed /\ Head(t) = "-"
                        THEN 0 - DecimalValue(body) ELSE DecimalValue(body)]
        ELSE [raised |-> TRUE, value |-> 0]

\* ---- parse_duration_to_seconds -------------------------------------------
DefaultSeconds == 300

parse_duration_to_seconds(duration_str) ==
    LET n == int(butlast(duration_str))
    IN  IF endswith(duration_str, "s")
        THEN [raised |-> n.raised, seconds |-> n.value]
        ELSE IF endswith(duration_str, "m")
        THEN [raised |-> n.raised, seconds |-> n.value * 60]
        ELSE IF endswith(duration_str, "h")
        THEN [raised |-> n.raised, seconds |-> n.value * 3600]
        ELSE [raised |-> FALSE, seconds |-> DefaultSeconds]

\* ---- the backend dispatcher ----------------------------------------------
\* What one requests.post can end in: an HTTP response with a status, a
\* timeout, a connection error, any other exception.
HttpStatuses == {"200", "204", "500"}

Outcomes == {"200", "500", "Timeout", "ConnectionError", "Exception"}

DispatchOutcomes == HttpStatuses \cup {"Timeout", "ConnectionError", "Exception"}

\* The dispatcher with the status check left out: any HTTP response counts.
send_alert_with_curl_any_status(outcome) ==
    CASE outcome \in HttpStatuses ->
            [success |-> TRUE, message |-> "Alert sent successfully", requests |-> 1]
      [] outcome = "Timeout" ->
            [success |-> FALSE, message |-> "Timeout while sending alert",
             requests |-> 1]
      [] outcome = "ConnectionError" ->
            [success |-> FALSE,
             message |-> "Connection error. Cannot connect to Alertmanager",
             requests |-> 1]
      [] OTHER -> [success |-> FALSE, message |-> "Error sending alert",
                   requests |-> 1]

\* requests counts the calls of requests.post: there is one, in no loop.
send_alert_with_curl(outcome) ==
    CASE outcome = "200" ->
            [success |-> TRUE, message |-> "Alert sent successfully", requests |-> 1]
      [] outcome \in HttpStatuses \ {"200"} ->
            [success |-> FALSE, message |-> "Failed to send alert: HTTP " \o outcome,
             requests |-> 1]
      [] outcome = "Timeout" ->
            [success |-> FALSE, message |-> "Timeout while sending alert",
             requests |-> 1]
      [] outcome = "ConnectionError" ->
            [success |-> FALSE,
             message |-> "Connection error. Cannot connect to Alertmanager",
             requests |-> 1]
      [] OTHER -> [success |-> FALSE, message |-> "Error sending alert",
                   requests |-> 1]

\* A resolve dispatcher that sends the request again after a timeout.
send_resolved_alert_with_curl_retry(outcome) ==
    CASE outcome = "200" ->
            [success |-> TRUE, message |-> "Resolved alert sent successfully",
             requests |-> 1]
      [] outcome \in HttpStatuses \ {"200"} ->
            [success |-> FALSE,
             message |-> "Failed to send resolved alert: HTTP " \o outcome,
             requests |-> 1]
      [] outcome = "Timeout" ->
            [success |-> FALSE, message |-> "Timeout while sending resolved alert",
             requests |-> 2]
      [] outcome = "ConnectionError" ->
            [success |-> FALSE,
             message |-> "Connection error. Cannot connect to Alertmanager",
             requests |-> 1]
      [] OTHER -> [success |-> FALSE, message |-> "Error sending resolved alert",
                   requests |-> 1]

send_resolved_alert_with_curl(outcome) ==
    CASE outcome = "200" ->
            [success |-> TRUE, message |-> "Resolved alert sent successfully",
             requests |-> 1]
      [] outcome \in HttpStatuses \ {"200"} ->
            [success |-> FALSE,
             message |-> "Failed to send resolved alert: HTTP " \o outcome,
             requests |-> 1]
      [] outcome = "Timeout" ->
            [success |-> FALSE, message |-> "Timeout while sending resolved alert",
             requests |-> 1]
      [] outcome = "ConnectionError" ->
            [success |-> FALSE,
             message |-> "Connection error. Cannot connect to Alertmanager",
             requests |-> 1]
      [] OTHER -> [success |-> FALSE, message |-> "Error sending resolved alert",
                   requests |-> 1]

\* ---- the payload ----------------------------------------------------------
\* The names of the built-in labels and annotations, as text.
label_alertname == <<"a", "l", "e", "r", "t", "n", "a", "m", "e">>
label_severity == <<"s", "e", "v", "e", "r", "i", "t", "y">>
label_service == <<"s", "e", "r", "v", "i", "c", "e">>
annotation_summary == <<"s", "u", "m", "m", "a", "r", "y">>
annotation_description == <<"d", "e", "s", "c", "r", "i", "p", "t", "i", "o", "n">>

\* d[k] = v on a dict
setitem(d, k, v) == [x \in DOMAIN d \cup {k} |-> IF x = k THEN v ELSE d[x]]

\* send_alert: the custom labels (and annotations) of the form, from the two
\* lists of keys and values; a pair with a blank key or value, or a key
\* without a value, is dropped.
RECURSIVE custom_pairs(_, _, _, _)
custom_pairs(d, keys, values, i) ==
    IF i > Len(keys)
    THEN d
    ELSE IF i <= Len(values) /\ strip(keys[i]) # <<>> /\ strip(values[i]) # <<>>
    THEN custom_pairs(setitem(d, strip(keys[i]), strip(values[i])), keys, values, i + 1)
    ELSE custom_pairs(d, keys, values, i + 1)

\* A merge in which a built-in entry keeps its value.
merge_custom_builtin_kept(builtin, custom) ==
    LET taken == {k \in DOMAIN custom : k # <<>> /\ custom[k] # <<>>}
    IN  [k \in DOMAIN builtin \cup taken |->
            IF k \in DOMAIN builtin THEN builtin[k] ELSE custom[k]]

\* for key, value in custom.items(): if key and value: payload[key] = value
merge_custom(builtin, custom) ==
    LET taken == {k \in DOMAIN custom : k # <<>> /\ custom[k] # <<>>}
    IN  [k \in DOMAIN builtin \cup taken |->
            IF k \in taken THEN custom[k] ELSE builtin[k]]

\* alert_data[0]; ends_at is <<>> for None and <<t>> for the time t; startsAt
\* is two minutes before utcnow.
alert_data(summary_, description_, severity_, service_, custom_labels, custom_annotations, utcnow, ends_at) ==
    [labels |-> merge_custom(
                    (label_alertname :> summary_) @@ (label_severity :> severity_)
                        @@ (label_service :> service_),
                    custom_labels),
     annotations |-> merge_custom(
                    (annotation_summary :> summary_)
                        @@ (annotation_description :> description_),
                    custom_annotations),
     startsAt |-> [utcnow |-> utcnow, minutes |-> -2],
     endsAt |-> ends_at]

\* The payload of send_resolved_alert_with_curl called with the fields of a
\* (the arguments of a task, or a record of the store).
resolved_alert_data(a, utcnow) ==
    alert_data(a.summary, a.description, a.severity, a.service, a.custom_labels,
               a.custom_annotations, utcnow, <<utcnow>>)

\* ---- form input --------------------------------------------------------
INFO == <<"i", "n", "f", "o">>
WARNING == <<"w", "a", "r", "n", "i", "n", "g">>
CRITICAL == <<"c", "r", "i", "t", "i", "c", "a", "l">>
URGENT == <<"u", "r", "g", "e", "n", "t">>

FieldNames == {"summary", "description", "severity", "duration", "service"}

\* A valid form (its values are also ones the bulk generator can draw).
BaseForm ==
    [summary |-> <<"D", "H">>, description |-> <<"D", "H", " ", "x">>,
     severity |-> INFO, duration |-> <<"1", "s">>, service |-> <<"v">>,
     label_keys |-> <<>>, label_values |-> <<>>,
     annotation_keys |-> <<>>, annotation_values |-> <<>>]

EmptyForm ==
    [summary |-> <<>>, description |-> <<>>, severity |-> <<>>,
     duration |-> <<>>, service |-> <<>>,
     label_keys |-> <<>>, label_values |-> <<>>,
     annotation_keys |-> <<>>, annotation_values |-> <<>>]

\* The forms submitted to POST /: the base form, the base form with one
\* field blank, with another severity, with a duration that has a unit and no
\* number, and padded with whitespace (which strip() takes away again).
Forms ==
    {BaseForm}
    \cup {[BaseForm EXCEPT !.summary = <<>>], [BaseForm EXCEPT !.duration = <<" ">>]}
    \cup {[BaseForm EXCEPT !.severity = s] : s \in {URGENT, <<" ">> \o INFO}}
    \cup {[BaseForm EXCEPT !.duration = <<"s">>]}
    \cup {[BaseForm EXCEPT !.summary = <<" ", "D", "H", " ">>,
                           !.duration = <<" ", "1", "s">>]}

\* ---- the alert store (one JSON file per alert under ALERTS_DIR) -----------
\* fs maps an alert id to its file: the JSON document and the file's mtime.
\* Creating a file can fail (io_ok); reading, rewriting and removing a file
\* that exists succeed.
save_alert_to_file(fs, alert_info, io_ok, t) ==
    IF io_ok
    THEN [ok |-> TRUE,
          fs |-> (alert_info.id :> [json |-> alert_info, mtime |-> t]) @@ fs]
    ELSE [ok |-> FALSE, fs |-> fs]

add_sent_alert(fs, alert_info, io_ok, t) == save_alert_to_file(fs, alert_info, io_ok, t)

\* A removal that reports success for a file that does not exist.
remove_alert_file_absent_ok(fs, alert_id) ==
    [ok |-> TRUE, fs |-> [x \in DOMAIN fs \ {alert_id} |-> fs[x]]]

\* remove_alert_file reporting success without removing the file.
remove_alert_file_kept(fs, alert_id) ==
    [ok |-> alert_id \in DOMAIN fs, fs |-> fs]

remove_alert_file(fs, alert_id) ==
    IF alert_id \in DOMAIN fs
    THEN [ok |-> TRUE, fs |-> [x \in DOMAIN fs \ {alert_id} |-> fs[x]]]
    ELSE [ok |-> FALSE, fs |-> fs]

\* An update that writes a file for an id that has none.
update_alert_status_created(fs, alert_id, status, resolved_at, t) ==
    [ok |-> TRUE,
     fs |-> (alert_id :> [json |-> [id |-> alert_id, status |-> status,
                                    resolved_at |-> <<resolved_at>>],
                          mtime |-> t]) @@ fs]

\* An update that reports success and writes nothing.
update_alert_status_unwritten(fs, alert_id, status, resolved_at, t) ==
    [ok |-> alert_id \in DOMAIN fs, fs |-> fs]

update_alert_status(fs, alert_id, status, resolved_at, t) ==
    IF alert_id \in DOMAIN fs
    THEN [ok |-> TRUE,
          fs |-> [fs EXCEPT ![alert_id] =
                     [json |-> [@.json EXCEPT !.status = status,
                                              !.resolved_at = <<resolved_at>>],
                      mtime |-> t]]]
    ELSE [ok |-> FALSE, fs |-> fs]

\* os.listdir gives the files in no particular order.
ListdirOrders(fs) ==
    {o \in [1..Cardinality(DOMAIN fs) -> DOMAIN fs] :
        \A i, j \in DOMAIN o : i # j => o[i] # o[j]}

load_sent_alerts(fs, order) == [i \in DOMAIN order |-> fs[order[i]].json]

\* ---- state ----------------------------------------------------------------
VARIABLES
    files,         \* ALERTS_DIR: alert id -> [json, mtime]
    tasks,         \* the auto_resolve_alert task created for each id
    nextId,        \* number of ids uuid4 has handed out
    now,           \* the clock (UTC), in half days
    tz,            \* offset of the host's local time from UTC, in half days
    fireCalls,     \* backend: fire requests received during the last step
    fireLabels,    \* backend: the labels of the fire request that made each id
    timerCalls,    \* backend: resolve requests of a task received, per alert id
    manualCalls,   \* backend: resolve requests of a handler received, per id
    timerAcks,     \* backend: resolve requests of a task answered 200, per id
    manualAcks,    \* backend: resolve requests of a handler answered 200, per id
    last           \* the step taken last: the operation and its response (for
                   \* send_alert also the form submitted, the backend's answer
                   \* and what became of the file write)

vars ==
    <<files, tasks, nextId, now, tz, fireCalls, fireLabels, timerCalls, manualCalls,
      timerAcks, manualAcks, last>>

Ids == 1..MaxAlerts

\* The arguments a task was created with, besides duration and alert_id.
task_args(summary, description, severity, service, custom_labels, custom_annotations) ==
    [summary |-> summary, description |-> description, severity |-> severity,
     service |-> service, custom_labels |-> custom_labels,
     custom_annotations |-> custom_annotations]

NoTask ==
    [pc |-> "none", duration |-> <<>>,
     args |-> task_args(<<>>, <<>>, <<>>, <<>>, <<>>, <<>>)]

\* An id generator that hands out the same id again.
uuid4_repeated(n) == IF n = 0 THEN 1 ELSE n

\* str(uuid.uuid4()): an id never handed out before
uuid4(n) == n + 1

Init ==
    /\ files = <<>>
    /\ tasks = [i \in Ids |-> NoTask]
    /\ nextId = 0
    /\ now = 0
    /\ tz = 0
    /\ fireCalls = 0
    /\ fireLabels = [i \in Ids |-> <<>>]
    /\ timerCalls = [i \in Ids |-> 0]
    /\ manualCalls = [i \in Ids |-> 0]
    /\ timerAcks = [i \in Ids |-> 0]
    /\ manualAcks = [i \in Ids |-> 0]
    /\ last = [op |-> "start"]

\* ---- POST / : send_alert ----------------------------------------------------
\* The required-field test without strip().
required_fields_filled_unstripped(form) == \A f \in FieldNames : form[f] # <<>>

required_fields_filled(form) == \A f \in FieldNames : strip(form[f]) # <<>>

valid_severity(form) == form.severity \in {INFO, WARNING, CRITICAL}

\* A record written without the custom labels and annotations of the form.
new_alert_info_unlabelled(alert_id, args, duration, t) ==
    [id |-> alert_id, summary |-> args.summary, description |-> args.description,
     severity |-> args.severity, service |-> args.service, duration |-> duration,
     custom_labels |-> <<>>, custom_annotations |-> <<>>,
     sent_at |-> t, status |-> "active", auto_resolve_scheduled |-> TRUE,
     resolved_at |-> <<>>]

new_alert_info(alert_id, args, duration, t) ==
    [id |-> alert_id, summary |-> args.summary, description |-> args.description,
     severity |-> args.severity, service |-> args.service, duration |-> duration,
     custom_labels |-> args.custom_labels,
     custom_annotations |-> args.custom_annotations,
     sent_at |-> t, status |-> "active", auto_resolve_scheduled |-> TRUE,
     resolved_at |-> <<>>]

\* A handler that arms no timer.
create_task_unarmed(ts, alert_id, duration, args) == ts

\* asyncio.create_task(auto_resolve_alert(duration, ..., alert_id))
create_task(ts, alert_id, duration, args) ==
    [ts EXCEPT ![alert_id] = [pc |-> "created", duration |-> duration, args |-> args]]

send_alert_rejected(form, message) ==
    /\ last' = [op |-> "send_alert", form |-> form, backend |-> "none",
                store |-> "none", message_type |-> "error", message |-> message,
                form_data |-> form, calls |-> <<>>]
    /\ fireCalls' = 0
    /\ UNCHANGED <<files, tasks, nextId, now, tz, fireLabels,
                  timerCalls, manualCalls, timerAcks, manualAcks>>

send_alert_dispatched(form, outcome, io_ok) ==
    LET custom_labels == custom_pairs(<<>>, form.label_keys, form.label_values, 1)
        custom_annotations ==
            custom_pairs(<<>>, form.annotation_keys, form.annotation_values, 1)
        args == task_args(strip(form.summary), strip(form.description),
                          strip(form.severity), strip(form.service),
                          custom_labels, custom_annotations)
        payload == alert_data(args.summary, args.description, args.severity,
                              args.service, custom_labels, custom_annotations,
                              now, <<>>)
        r == send_alert_with_curl(outcome)
        alert_id == uuid4(nextId)
        alert_info == new_alert_info(alert_id, args, strip(form.duration), now)
        saved == add_sent_alert(files, alert_info, io_ok, now)
    IN  /\ r.success => nextId < MaxAlerts
        /\ fireCalls' = r.requests
        /\ IF r.success
           THEN /\ nextId' = alert_id
                /\ fireLabels' = [fireLabels EXCEPT ![alert_id] = payload.labels]
                /\ files' = saved.fs
                /\ tasks' = create_task(tasks, alert_id, strip(form.duration), args)
                /\ last' = [op |-> "send_alert", form |-> form, backend |-> outcome,
                            store |-> IF saved.ok THEN "written" ELSE "OSError",
                            message_type |-> "success", message |-> r.message,
                            form_data |-> EmptyForm,
                            calls |-> <<"send_alert_with_curl", "add_sent_alert",
                                        "create_task">>]
           ELSE /\ last' = [op |-> "send_alert", form |-> form, backend |-> outcome,
                            store |-> "none", message_type |-> "error",
                            message |-> r.message, form_data |-> form,
                            calls |-> <<"send_alert_with_curl">>]
                /\ UNCHANGED <<files, tasks, nextId, fireLabels>>
        /\ UNCHANGED <<now, tz, timerCalls, manualCalls, timerAcks, manualAcks>>

send_alert(form, outcome, io_ok) ==
    IF ~required_fields_filled(form)
    THEN send_alert_rejected(form, "All required fields must be filled")
    ELSE IF ~valid_severity(form)
    THEN send_alert_rejected(form, "Invalid severity level")
    ELSE send_alert_dispatched(form, outcome, io_ok)

\* ---- the auto_resolve_alert task ---------------------------------------------
\* From its creation to the first await: the duration is parsed; a ValueError
\* of int() is caught by the task's except clause and the task ends.
auto_resolve_start(alert_id) ==
    /\ tasks[alert_id].pc = "created"
    /\ tasks' = [tasks EXCEPT ![alert_id].pc =
                    IF parse_duration_to_seconds(tasks[alert_id].duration).raised
                    THEN "done" ELSE "sleeping"]
    /\ last' = [op |-> "auto_resolve_alert", at |-> "start", alert_id |-> alert_id]
    /\ fireCalls' = 0
    /\ UNCHANGED fireLabels
    /\ UNCHANGED <<files, nextId, now, tz, timerCalls,
                  manualCalls, timerAcks, manualAcks>>

\* A task that goes on to remove the alert file whatever the backend answered.
auto_resolve_wake_remove_always(alert_id, outcome) ==
    LET r == send_resolved_alert_with_curl(outcome)
        upd == update_alert_status(files, alert_id, "resolved", now, now)
    IN  /\ tasks[alert_id].pc = "sleeping"
        /\ timerCalls' = [timerCalls EXCEPT ![alert_id] = @ + r.requests]
        /\ timerAcks' = IF r.success THEN [timerAcks EXCEPT ![alert_id] = @ + 1]
                        ELSE timerAcks
        /\ files' = upd.fs
        /\ tasks' = [tasks EXCEPT ![alert_id].pc = "grace"]
        /\ last' = [op |-> "auto_resolve_alert", at |-> "wake", alert_id |-> alert_id,
                    payload |-> resolved_alert_data(tasks[alert_id].args, now)]
        /\ fireCalls' = 0
        /\ UNCHANGED fireLabels
        /\ UNCHANGED <<nextId, now, tz, manualCalls, manualAcks>>

\* A task that sleeps again and retries when its resolve request failed.
auto_resolve_wake_retry(alert_id, outcome) ==
    LET r == send_resolved_alert_with_curl(outcome)
        upd == update_alert_status(files, alert_id, "resolved", now, now)
    IN  /\ tasks[alert_id].pc = "sleeping"
        /\ timerCalls[alert_id] < 2
        /\ timerCalls' = [timerCalls EXCEPT ![alert_id] = @ + r.requests]
        /\ IF r.success
           THEN /\ timerAcks' = [timerAcks EXCEPT ![alert_id] = @ + 1]
                /\ files' = upd.fs
                /\ tasks' = [tasks EXCEPT ![alert_id].pc = "grace"]
           ELSE UNCHANGED <<files, tasks, timerAcks>>
        /\ last' = [op |-> "auto_resolve_alert", at |-> "wake", alert_id |-> alert_id,
                    payload |-> resolved_alert_data(tasks[alert_id].args, now)]
        /\ fireCalls' = 0
        /\ UNCHANGED fireLabels
        /\ UNCHANGED <<nextId, now, tz, manualCalls, manualAcks>>

\* The duration has elapsed: the resolve is sent and, when it succeeded, the
\* status is updated; then the task sleeps one second.
auto_resolve_wake(alert_id, outcome) ==
    LET r == send_resolved_alert_with_curl(outcome)
        upd == update_alert_status(files, alert_id, "resolved", now, now)
    IN  /\ tasks[alert_id].pc = "sleeping"
        /\ timerCalls' = [timerCalls EXCEPT ![alert_id] = @ + r.requests]
        /\ IF r.success
           THEN /\ timerAcks' = [timerAcks EXCEPT ![alert_id] = @ + 1]
                /\ files' = upd.fs
                /\ tasks' = [tasks EXCEPT ![alert_id].pc = "grace"]
           ELSE /\ tasks' = [tasks EXCEPT ![alert_id].pc = "done"]
                /\ UNCHANGED <<files, timerAcks>>
        /\ last' = [op |-> "auto_resolve_alert", at |-> "wake", alert_id |-> alert_id,
                    payload |-> resolved_alert_data(tasks[alert_id].args, now)]
        /\ fireCalls' = 0
        /\ UNCHANGED fireLabels
        /\ UNCHANGED <<nextId, now, tz, manualCalls, manualAcks>>

\* After the one-second sleep the alert file is removed.
auto_resolve_remove(alert_id) ==
    /\ tasks[alert_id].pc = "grace"
    /\ files' = remove_alert_file(files, alert_id).fs
    /\ tasks' = [tasks EXCEPT ![alert_id].pc = "done"]
    /\ last' = [op |-> "auto_resolve_alert", at |-> "remove", alert_id |-> alert_id]
    /\ fireCalls' = 0
    /\ UNCHANGED fireLabels
    /\ UNCHANGED <<nextId, now, tz, timerCalls, manualCalls, timerAcks, manualAcks>>

\* ---- POST /resolve-alert/{alert_id} -------------------------------------------
\* A resolve that removes the file whatever the backend answered.
resolve_sent_alert_remove_always(fs, alert_id, outcome) ==
    LET r == send_resolved_alert_with_curl(outcome)
        rm == remove_alert_file(fs, alert_id)
    IN  IF alert_id \notin DOMAIN fs
        THEN [found |-> FALSE, called |-> FALSE, requests |-> 0, success |-> FALSE,
              message |-> "None", fs |-> fs, alert |-> <<>>]
        ELSE [found |-> TRUE, called |-> TRUE, requests |-> r.requests,
              success |-> r.success,
              message |-> IF r.success THEN "Alert resolved successfully"
                          ELSE r.message,
              fs |-> rm.fs, alert |-> fs[alert_id].json]

\* A resolve that takes the first record of the directory instead of the one
\* with the id asked for.
resolve_sent_alert_first(fs, alert_id, outcome) ==
    LET r == send_resolved_alert_with_curl(outcome)
        first == CHOOSE x \in DOMAIN fs : \A y \in DOMAIN fs : x <= y
        rm == remove_alert_file(fs, first)
    IN  IF alert_id \notin DOMAIN fs
        THEN [found |-> FALSE, called |-> FALSE, requests |-> 0, success |-> FALSE,
              message |-> "None", fs |-> fs, alert |-> <<>>]
        ELSE IF r.success
        THEN [found |-> TRUE, called |-> TRUE, requests |-> r.requests,
              success |-> TRUE,
              message |-> IF rm.ok THEN "Alert resolved successfully"
                          ELSE "Alert resolved but file cleanup failed",
              fs |-> rm.fs, alert |-> fs[first].json]
        ELSE [found |-> TRUE, called |-> TRUE, requests |-> r.requests,
              success |-> FALSE,
              message |-> r.message, fs |-> fs, alert |-> fs[first].json]

\* resolve_sent_alert: found tells whether the loop met the id; when it did
\* not, the function falls off its end and returns None.
resolve_sent_alert(fs, alert_id, outcome) ==
    LET r == send_resolved_alert_with_curl(outcome)
        rm == remove_alert_file(fs, alert_id)
    IN  IF alert_id \notin DOMAIN fs
        THEN [found |-> FALSE, called |-> FALSE, requests |-> 0, success |-> FALSE,
              message |-> "None", fs |-> fs, alert |-> <<>>]
        ELSE IF r.success
        THEN [found |-> TRUE, called |-> TRUE, requests |-> r.requests,
              success |-> TRUE,
              message |-> IF rm.ok THEN "Alert resolved successfully"
                          ELSE "Alert resolved but file cleanup failed",
              fs |-> rm.fs, alert |-> fs[alert_id].json]
        ELSE [found |-> TRUE, called |-> TRUE, requests |-> r.requests,
              success |-> FALSE,
              message |-> r.message, fs |-> fs, alert |-> fs[alert_id].json]

\* An endpoint that cancels the task of the alert it resolved.
resolve_alert_endpoint_cancel(alert_id, outcome) ==
    LET res == resolve_sent_alert(files, alert_id, outcome)
    IN  /\ res.called => manualCalls[alert_id] < MaxManualCalls
        /\ files' = res.fs
        /\ manualCalls' =
              IF res.called THEN [manualCalls EXCEPT ![alert_id] = @ + res.requests]
              ELSE manualCalls
        /\ manualAcks' =
              IF res.success THEN [manualAcks EXCEPT ![alert_id] = @ + 1]
              ELSE manualAcks
        /\ tasks' = IF res.success THEN [tasks EXCEPT ![alert_id].pc = "done"]
                    ELSE tasks
        /\ last' =
              IF res.found
              THEN [op |-> "resolve_alert", alert_id |-> alert_id, status |-> 200,
                    backend |-> outcome,
                    payload |-> resolved_alert_data(res.alert, now),
                    body |-> [success |-> res.success, message |-> res.message]]
              ELSE [op |-> "resolve_alert", alert_id |-> alert_id, status |-> 500,
                    body |-> [detail |-> "Internal Server Error"]]
        /\ fireCalls' = 0
        /\ UNCHANGED fireLabels
        /\ UNCHANGED <<nextId, now, tz, timerCalls, timerAcks>>

\* The endpoint unpacks the returned pair; unpacking None raises TypeError,
\* which nothing catches: the request ends in HTTP 500.
resolve_alert_endpoint(alert_id, outcome) ==
    LET res == resolve_sent_alert(files, alert_id, outcome)
    IN  /\ res.called => manualCalls[alert_id] < MaxManualCalls
        /\ files' = res.fs
        /\ manualCalls' =
              IF res.called THEN [manualCalls EXCEPT ![alert_id] = @ + res.requests]
              ELSE manualCalls
        /\ manualAcks' =
              IF res.success THEN [manualAcks EXCEPT ![alert_id] = @ + 1]
              ELSE manualAcks
        /\ last' =
              IF res.found
              THEN [op |-> "resolve_alert", alert_id |-> alert_id, status |-> 200,
                    backend |-> outcome,
                    payload |-> resolved_alert_data(res.alert, now),
                    body |-> [success |-> res.success, message |-> res.message]]
              ELSE [op |-> "resolve_alert", alert_id |-> alert_id, status |-> 500,
                    body |-> [detail |-> "Internal Server Error"]]
        /\ fireCalls' = 0
        /\ UNCHANGED fireLabels
        /\ UNCHANGED <<tasks, nextId, now, tz, timerCalls, timerAcks>>

\* ---- POST /close-all-alerts ----------------------------------------------------
\* st carries the loop's variables: the directory, closed_count, errors, and
\* the backend's counters.
\* The close-all loop leaving at the first alert whose resolve failed.
RECURSIVE close_all_loop_break(_, _, _, _)
close_all_loop_break(st, alerts, i, outcomes) ==
    IF i > Len(alerts)
    THEN st
    ELSE LET alert == alerts[i]
             alert_id == alert.id
             r == send_resolved_alert_with_curl(outcomes[alert_id])
             rm == remove_alert_file(st.fs, alert_id)
             sent == [st EXCEPT !.manualCalls[alert_id] = @ + r.requests,
                                !.dispatched = setitem(@, alert_id, alert)]
         IN  IF r.success
             THEN close_all_loop_break(
                      [sent EXCEPT !.fs = rm.fs, !.manualAcks[alert_id] = @ + 1,
                                   !.closed_count = @ + 1],
                      alerts, i + 1, outcomes)
             ELSE [sent EXCEPT !.errors = Append(@,
                                  <<"Failed to resolve alert", alert.summary,
                                    r.message>>)]

RECURSIVE close_all_loop(_, _, _, _)
close_all_loop(st, alerts, i, outcomes) ==
    IF i > Len(alerts)
    THEN st
    ELSE LET alert == alerts[i]
             alert_id == alert.id
             r == send_resolved_alert_with_curl(outcomes[alert_id])
             rm == remove_alert_file(st.fs, alert_id)
             sent == [st EXCEPT !.manualCalls[alert_id] = @ + r.requests,
                                !.dispatched = setitem(@, alert_id, alert)]
             after ==
                 IF r.success
                 THEN IF rm.ok
                      THEN [sent EXCEPT !.fs = rm.fs,
                                        !.manualAcks[alert_id] = @ + 1,
                                        !.closed_count = @ + 1]
                      ELSE [sent EXCEPT !.manualAcks[alert_id] = @ + 1,
                                        !.errors = Append(@,
                                            <<"resolved but file removal failed",
                                              alert.summary>>)]
                 ELSE [sent EXCEPT !.errors = Append(@,
                                      <<"Failed to resolve alert", alert.summary,
                                        r.message>>)]
         IN  close_all_loop(after, alerts, i + 1, outcomes)

close_all_alerts(fs, order, outcomes, calls, acks) ==
    close_all_loop([fs |-> fs, closed_count |-> 0, errors |-> <<>>,
                    manualCalls |-> calls, manualAcks |-> acks,
                    dispatched |-> <<>>],
                   load_sent_alerts(fs, order), 1, outcomes)

close_all_alerts_endpoint(order, outcomes) ==
    LET st == close_all_alerts(files, order, outcomes, manualCalls, manualAcks)
    IN  /\ \A id \in DOMAIN files : manualCalls[id] < MaxManualCalls
        /\ files' = st.fs
        /\ manualCalls' = st.manualCalls
        /\ manualAcks' = st.manualAcks
        /\ last' = [op |-> "close_all_alerts", status |-> 200,
                    payloads |-> [id \in DOMAIN st.dispatched |->
                                     resolved_alert_data(st.dispatched[id], now)],
                    body |-> [success |-> Len(st.errors) = 0,
                              closed_count |-> st.closed_count,
                              errors |-> st.errors]]
        /\ fireCalls' = 0
        /\ UNCHANGED fireLabels
        /\ UNCHANGED <<tasks, nextId, now, tz, timerCalls, timerAcks>>

\* ---- POST /cleanup-old-alerts --------------------------------------------------
\* cutoff_time is utcnow() - days_old; file_mtime is fromtimestamp(mtime), the
\* local time of the host.  The clock counts half days: a day is 2 ticks.
is_old(file, days_old, utcnow, offset) ==
    file.mtime + offset < utcnow - 2 * days_old

\* A cleanup that stops after the first file it removed.
cleanup_old_alerts_first_only(fs, days_old, utcnow, offset) ==
    LET old == {id \in DOMAIN fs : is_old(fs[id], days_old, utcnow, offset)}
        first == IF old = {} THEN {} ELSE {CHOOSE id \in old : \A x \in old : id <= x}
    IN  [removed_count |-> Cardinality(first),
         fs |-> [x \in DOMAIN fs \ first |-> fs[x]]]

cleanup_old_alerts(fs, days_old, utcnow, offset) ==
    LET old == {id \in DOMAIN fs : is_old(fs[id], days_old, utcnow, offset)}
    IN  [removed_count |-> Cardinality(old),
         fs |-> [x \in DOMAIN fs \ old |-> fs[x]]]

cleanup_old_alerts_endpoint(days_old) ==
    LET res == cleanup_old_alerts(files, days_old, now, tz)
    IN  /\ files' = res.fs
        /\ last' = [op |-> "cleanup_old_alerts", days_old |-> days_old,
                    previous |-> IF last.op = "cleanup_old_alerts"
                                    /\ last.days_old = days_old
                                 THEN <<last.body.removed_count>> ELSE <<>>,
                    status |-> 200,
                    body |-> [success |-> TRUE, removed_count |-> res.removed_count]]
        /\ fireCalls' = 0
        /\ UNCHANGED fireLabels
        /\ UNCHANGED <<tasks, nextId, now, tz, timerCalls,
                      manualCalls, timerAcks, manualAcks>>

\* ---- POST /bulk-generate --------------------------------------------------------
\* The word pools of the generator, cut down to one or two words each.
summary_nouns == {<<"D">>}
summary_adjectives == {<<"H">>}
description_words == {<<"x">>}
service_names == {<<"v">>}
severities == {INFO, WARNING, CRITICAL}

\* What the environment does to one iteration: the backend's answer and, when
\* it answered 200, whether the alert file could be written.
Draws ==
    {[backend |-> o, io_ok |-> TRUE] : o \in Outcomes}
    \cup {[backend |-> "200", io_ok |-> FALSE]}

\* The draws tried with a form: a form that is rejected meets neither the
\* backend nor the store, and the failures of the backend are tried with the
\* base form.
FormDraws(form) ==
    IF form = BaseForm THEN Draws ELSE {d \in Draws : d.backend = "200" /\ d.io_ok}

\* The draws of one bulk iteration and the answers to one close-all request:
\* one failure stands for the four kinds of failure.
BulkDraws == {d \in Draws : d.backend \in {"200", "Timeout"}}

CloseOutcomes == {"200", "500"}

RECURSIVE bulk_generate_loop(_, _, _, _, _, _)
bulk_generate_loop(st, i, count, duration, rnd, draws) ==
    IF i > count
    THEN st
    ELSE LET summary == rnd.noun \o rnd.adjective
             description == summary \o <<" ">> \o rnd.words
             args == task_args(summary, description, rnd.severity, rnd.service,
                               <<>>, <<>>)
             payload == alert_data(summary, description, rnd.severity, rnd.service,
                                   <<>>, <<>>, st.now, <<>>)
             r == send_alert_with_curl(draws[i].backend)
             alert_id == uuid4(st.nextId)
             alert_info == new_alert_info(alert_id, args, duration, st.now)
             saved == add_sent_alert(st.fs, alert_info, draws[i].io_ok, st.now)
             sent == [st EXCEPT !.fireCalls = @ + r.requests]
             after ==
                 IF r.success
                 THEN [sent EXCEPT !.nextId = alert_id,
                                   !.fs = saved.fs,
                                   !.fireLabels[alert_id] = payload.labels,
                                   !.tasks = create_task(@, alert_id, duration, args),
                                   !.generated_count = @ + 1]
                 ELSE [sent EXCEPT !.errors = Append(@, <<"Alert", i, r.message>>)]
         IN  bulk_generate_loop(after, i + 1, count, duration, rnd, draws)

bulk_generate_alerts(count, duration, rnd, draws) ==
    LET st == bulk_generate_loop(
                  [fs |-> files, tasks |-> tasks, nextId |-> nextId, now |-> now,
                   fireCalls |-> 0, fireLabels |-> fireLabels,
                   generated_count |-> 0, errors |-> <<>>],
                  1, count, duration, rnd, draws)
    IN  /\ nextId + count <= MaxAlerts
        /\ files' = st.fs
        /\ tasks' = st.tasks
        /\ nextId' = st.nextId
        /\ fireCalls' = st.fireCalls
        /\ fireLabels' = st.fireLabels
        /\ last' = [op |-> "bulk_generate", count |-> count, duration |-> duration,
                    backend |-> [i \in 1..count |-> draws[i].backend],
                    generated_count |-> st.generated_count, errors |-> st.errors,
                    message_type |-> IF st.generated_count > 0
                                     THEN "success" ELSE "error"]
        /\ UNCHANGED <<now, tz, timerCalls, manualCalls, timerAcks, manualAcks>>

\* ---- the system ----------------------------------------------------------------
\* days_old is any integer of the query string; below zero the cutoff lies
\* ahead of the clock and every file is older than it.
DaysOld == {-1, 0, 1}

Next ==
    \/ \E form \in Forms : \E draw \in FormDraws(form) :
          send_alert(form, draw.backend, draw.io_ok)
    \/ \E count \in 0..MaxCount, duration \in {<<"1", "s">>, <<"s">>},
          noun \in summary_nouns, adjective \in summary_adjectives,
          words \in description_words, service \in service_names,
          severity \in severities \cap {INFO} :
          \E draws \in [1..count -> BulkDraws] :
             bulk_generate_alerts(count, duration,
                 [noun |-> noun, adjective |-> adjective, words |-> words,
                  service |-> service, severity |-> severity], draws)
    \/ \E alert_id \in Ids : auto_resolve_start(alert_id)
    \/ \E alert_id \in Ids, outcome \in Outcomes : auto_resolve_wake(alert_id, outcome)
    \/ \E alert_id \in Ids : auto_resolve_remove(alert_id)
    \/ \E alert_id \in Ids, outcome \in Outcomes :
          resolve_alert_endpoint(alert_id, outcome)
    \/ \E order \in ListdirOrders(files), outcomes \in [DOMAIN files -> CloseOutcomes] :
          close_all_alerts_endpoint(order, outcomes)
    \/ \E days_old \in DaysOld : cleanup_old_alerts_endpoint(days_old)

Spec == Init /\ [][Next]_vars

\* The form handler and the tasks it creates, with every form and every draw.
NextFire ==
    \/ \E form \in Forms : \E draw \in Draws :
          send_alert(form, draw.backend, draw.io_ok)
    \/ \E alert_id \in Ids : auto_resolve_start(alert_id)
    \/ \E alert_id \in Ids, outcome \in Outcomes : auto_resolve_wake(alert_id, outcome)
    \/ \E alert_id \in Ids : auto_resolve_remove(alert_id)

SpecFire == Init /\ [][NextFire]_vars

\* Close-all over the stores that sending and the tasks produce: active and
\* resolved records, records whose file was never written, tasks at any point.
NextClose ==
    \/ \E draw \in BulkDraws : send_alert(BaseForm, draw.backend, draw.io_ok)
    \/ \E alert_id \in Ids : auto_resolve_start(alert_id)
    \/ \E alert_id \in Ids, outcome \in Outcomes : auto_resolve_wake(alert_id, outcome)
    \/ \E alert_id \in Ids : auto_resolve_remove(alert_id)
    \/ \E order \in ListdirOrders(files), outcomes \in [DOMAIN files -> CloseOutcomes] :
          close_all_alerts_endpoint(order, outcomes)

SpecClose == Init /\ [][NextClose]_vars

\* ---- the store under a running clock -------------------------------------------
\* The clock counts half days.  The host's local time is ahead of or behind
\* UTC by up to half a day (UTC-12 .. UTC+12).
MaxClock == 3

TzOffsets == {-1, 0, 1}

CleanupDaysOld == {-1, 0, 1}

InitClock ==
    /\ files = <<>>
    /\ tasks = [i \in Ids |-> NoTask]
    /\ nextId = 0
    /\ now = 0
    /\ tz \in TzOffsets
    /\ fireCalls = 0
    /\ fireLabels = [i \in Ids |-> <<>>]
    /\ timerCalls = [i \in Ids |-> 0]
    /\ manualCalls = [i \in Ids |-> 0]
    /\ timerAcks = [i \in Ids |-> 0]
    /\ manualAcks = [i \in Ids |-> 0]
    /\ last = [op |-> "start"]

Tick ==
    /\ now < MaxClock
    /\ now' = now + 1
    /\ last' = [op |-> "tick"]
    /\ fireCalls' = 0
    /\ UNCHANGED fireLabels
    /\ UNCHANGED <<files, tasks, nextId, tz, timerCalls, manualCalls, timerAcks,
                  manualAcks>>

NextCleanup ==
    \/ Tick
    \/ \E io_ok \in BOOLEAN : send_alert(BaseForm, "200", io_ok)
    \/ \E alert_id \in Ids : auto_resolve_start(alert_id)
    \/ \E alert_id \in Ids, outcome \in CloseOutcomes :
          auto_resolve_wake(alert_id, outcome)
    \/ \E alert_id \in Ids : auto_resolve_remove(alert_id)
    \/ \E days_old \in CleanupDaysOld : cleanup_old_alerts_endpoint(days_old)

SpecCleanup == InitClock /\ [][NextCleanup]_vars

\* Both manual resolve paths over the stores that sending and the tasks
\* produce.  A manual resolve is answered 200, with another status or not at
\* all; close-all reads the directory in the order of the ids (SpecClose
\* takes every order).
ResolveOutcomes == {"200", "500", "Timeout"}

NextResolve ==
    \/ \E draw \in BulkDraws : send_alert(BaseForm, draw.backend, draw.io_ok)
    \/ \E alert_id \in Ids : auto_resolve_start(alert_id)
    \/ \E alert_id \in Ids, outcome \in CloseOutcomes :
          auto_resolve_wake(alert_id, outcome)
    \/ \E alert_id \in Ids : auto_resolve_remove(alert_id)
    \/ \E alert_id \in Ids, outcome \in ResolveOutcomes :
          resolve_alert_endpoint(alert_id, outcome)
    \/ \E order \in {o \in ListdirOrders(files) : \A p, q \in DOMAIN o : p < q => o[p] < o[q]} :
          \E outcomes \in [DOMAIN files -> CloseOutcomes] :
             close_all_alerts_endpoint(order, outcomes)

SpecResolve == Init /\ [][NextResolve]_vars

\* Every way a file leaves the store: the task, both manual resolve paths
\* and the cleanup (days_old below zero makes every file old).
NextRemove ==
    \/ \E io_ok \in BOOLEAN : send_alert(BaseForm, "200", io_ok)
    \/ \E alert_id \in Ids : auto_resolve_start(alert_id)
    \/ \E alert_id \in Ids, outcome \in CloseOutcomes :
          auto_resolve_wake(alert_id, outcome)
    \/ \E alert_id \in Ids : auto_resolve_remove(alert_id)
    \/ \E alert_id \in Ids : resolve_alert_endpoint(alert_id, "200")
    \/ \E order \in ListdirOrders(files) :
          close_all_alerts_endpoint(order, [id \in DOMAIN files |-> "200"])
    \/ cleanup_old_alerts_endpoint(-1)

SpecRemove == Init /\ [][NextRemove]_vars

\* ---- a restart of the process ---------------------------------------------------
\* The process ends and is started again: the tasks of the event loop are
\* gone, the alert files stay, and nothing in the module creates a task for
\* a file it finds.
restart ==
    /\ tasks' = [i \in Ids |-> NoTask]
    /\ last' = [op |-> "restart"]
    /\ fireCalls' = 0
    /\ UNCHANGED fireLabels
    /\ UNCHANGED <<files, nextId, now, tz, timerCalls, manualCalls, timerAcks,
                  manualAcks>>

NextRestart ==
    \/ \E draw \in Draws : send_alert(BaseForm, draw.backend, draw.io_ok)
    \/ \E alert_id \in Ids : auto_resolve_start(alert_id)
    \/ \E alert_id \in Ids, outcome \in Outcomes : auto_resolve_wake(alert_id, outcome)
    \/ \E alert_id \in Ids : auto_resolve_remove(alert_id)
    \/ \E alert_id \in Ids, outcome \in CloseOutcomes :
          resolve_alert_endpoint(alert_id, outcome)
    \/ restart

SpecRestart == Init /\ [][NextRestart]_vars

\* ---- the tasks under fair scheduling -------------------------------------------
\* The process keeps running, the event loop runs every task that can take a
\* step, and the backend answers every resolve request with 200.
NextLive ==
    \/ \E form \in Forms, io_ok \in BOOLEAN : send_alert(form, "200", io_ok)
    \/ \E alert_id \in Ids : auto_resolve_start(alert_id)
    \/ \E alert_id \in Ids : auto_resolve_wake(alert_id, "200")
    \/ \E alert_id \in Ids : auto_resolve_remove(alert_id)

FairTasks ==
    \A alert_id \in Ids :
        /\ WF_vars(auto_resolve_start(alert_id))
        /\ WF_vars(auto_resolve_wake(alert_id, "200"))
        /\ WF_vars(auto_resolve_remove(alert_id))

SpecLive == Init /\ [][NextLive]_vars /\ FairTasks

\* ---- parse_duration_to_seconds on its own ----------------------------------------
\* Duration strings of up to MaxDurationLen characters: digits, a sign, a
\* blank, the three unit letters and a letter that is no unit.
MaxDurationLen == 3

DurationChars == {"1", "2", "-", " ", "s", "m", "h", "x"}

DurationStrings == UNION {[1..n -> DurationChars] : n \in 0..MaxDurationLen}

\* duration_seconds = parse_duration_to_seconds(duration_str) in the task
parse_duration_call(duration_str) ==
    /\ last' = [op |-> "parse_duration_to_seconds", duration_str |-> duration_str,
                result |-> parse_duration_to_seconds(duration_str)]
    /\ fireCalls' = 0
    /\ UNCHANGED fireLabels
    /\ UNCHANGED <<files, tasks, nextId, now, tz, timerCalls, manualCalls,
                  timerAcks, manualAcks>>

NextParse == \E duration_str \in DurationStrings : parse_duration_call(duration_str)

SpecParse == Init /\ [][NextParse]_vars

\* ---- the dispatcher on its own ---------------------------------------------------
MaxLabels == 1

LabelKeys == {label_severity, <<"t">>, <<" ">>}
LabelValues == {<<"p">>, <<" ">>}
AnnotationKeys == {annotation_summary, <<"n">>}
AnnotationValues == {<<"q">>}

Lists(S) == UNION {[1..n -> S] : n \in 0..MaxLabels}

\* A call of one of the two dispatchers with what send_alert makes of a form.
DispatcherCalls ==
    {[op |-> "call", fn |-> fn,
      summary |-> strip(BaseForm.summary),
      description |-> strip(BaseForm.description),
      severity |-> strip(BaseForm.severity),
      service |-> strip(BaseForm.service),
      label_keys |-> lk, label_values |-> lv,
      annotation_keys |-> ak, annotation_values |-> av,
      custom_labels |-> custom_pairs(<<>>, lk, lv, 1),
      custom_annotations |-> custom_pairs(<<>>, ak, av, 1)] :
        fn \in {"send_alert_with_curl", "send_resolved_alert_with_curl"},
        lk \in Lists(LabelKeys), lv \in Lists(LabelValues),
        ak \in Lists(AnnotationKeys), av \in Lists(AnnotationValues)}

InitDispatch ==
    /\ files = <<>>
    /\ tasks = [i \in Ids |-> NoTask]
    /\ nextId = 0
    /\ now \in 0..MaxClock
    /\ tz = 0
    /\ fireCalls = 0
    /\ fireLabels = [i \in Ids |-> <<>>]
    /\ timerCalls = [i \in Ids |-> 0]
    /\ manualCalls = [i \in Ids |-> 0]
    /\ timerAcks = [i \in Ids |-> 0]
    /\ manualAcks = [i \in Ids |-> 0]
    /\ last \in DispatcherCalls

dispatch_fire(outcome) ==
    LET r == send_alert_with_curl(outcome)
    IN  /\ last.op = "call"
        /\ last.fn = "send_alert_with_curl"
        /\ last' = [op |-> "return", fn |-> last.fn, call |-> last,
                    outcome |-> outcome,
                    payload |-> alert_data(last.summary, last.description,
                                           last.severity, last.service,
                                           last.custom_labels,
                                           last.custom_annotations, now, <<>>),
                    result |-> r]
        /\ fireCalls' = r.requests
        /\ UNCHANGED <<files, tasks, nextId, now, tz, fireLabels, timerCalls, manualCalls,
                      timerAcks, manualAcks>>

dispatch_resolve(outcome) ==
    LET r == send_resolved_alert_with_curl(outcome)
    IN  /\ last.op = "call"
        /\ last.fn = "send_resolved_alert_with_curl"
        /\ last' = [op |-> "return", fn |-> last.fn, call |-> last,
                    outcome |-> outcome,
                    payload |-> alert_data(last.summary, last.description,
                                           last.severity, last.service,
                                           last.custom_labels,
                                           last.custom_annotations, now, <<now>>),
                    result |-> r]
        /\ fireCalls' = 0
        /\ UNCHANGED fireLabels
        /\ UNCHANGED <<files, tasks, nextId, now, tz, timerCalls, manualCalls,
                      timerAcks, manualAcks>>

NextDispatch ==
    \/ \E outcome \in DispatchOutcomes : dispatch_fire(outcome)
    \/ \E outcome \in DispatchOutcomes : dispatch_resolve(outcome)

SpecDispatch == InitDispatch /\ [][NextDispatch]_vars

\* ---- alerts with custom labels ---------------------------------------------------
\* Forms with custom labels: none, one that replaces the built-in severity
\* label, one of its own (its key padded with a blank).
LabelLists ==
    {[keys |-> <<>>, values |-> <<>>],
     [keys |-> <<label_severity>>, values |-> <<<<"p">>>>],
     [keys |-> <<<<" ", "t">>>>, values |-> <<<<"p">>>>]}

LabelForms ==
    {[BaseForm EXCEPT !.label_keys = l.keys, !.label_values = l.values] :
        l \in LabelLists}

\* The backend answers every request with 200 (what a dispatcher does with
\* another answer does not depend on the labels).
NextLabels ==
    \/ \E form \in LabelForms : send_alert(form, "200", TRUE)
    \/ \E alert_id \in Ids : auto_resolve_start(alert_id)
    \/ \E alert_id \in Ids : auto_resolve_wake(alert_id, "200")
    \/ \E alert_id \in Ids : auto_resolve_remove(alert_id)
    \/ \E alert_id \in Ids : resolve_alert_endpoint(alert_id, "200")
    \/ \E order \in ListdirOrders(files) :
          close_all_alerts_endpoint(order, [id \in DOMAIN files |-> "200"])

SpecLabels == Init /\ [][NextLabels]_vars

\* ---- properties -----------------------------------------------------------------
resolveCalls(id) == timerCalls[id] + manualCalls[id]

Stored == DOMAIN files

StatusOf(fs, id) == fs[id].json.status

\* C1: for every alert id at most one resolve request is ever sent to the
\* backend, whatever the interleaving of the task, resolve-alert and
\* close-all.
C1_OneResolveDispatchPerId == \A id \in Ids : resolveCalls(id) <= 1

\* C2: a task that wakes when its alert's record is gone (here: removed by
\* a resolve-alert or close-all that the backend acknowledged), or is already
\* marked resolved, sends nothing to the backend and changes nothing in the
\* store.
C2_WakeOnAbsentIsNoOp ==
    [][\A id \in Ids :
          (/\ tasks[id].pc = "sleeping"
           /\ tasks'[id].pc # "sleeping"
           /\ \/ (id \notin Stored /\ manualAcks[id] >= 1)
              \/ (id \in Stored /\ StatusOf(files, id) = "resolved"))
          => (timerCalls' = timerCalls /\ files' = files)]_vars

\* C3: the task and a manual resolve (resolve-alert or close-all) never both
\* get a successful backend resolve for the same id.
C3_NotBothAcknowledged ==
    \A id \in Ids : ~(timerAcks[id] >= 1 /\ manualAcks[id] >= 1)

\* C4: resolve-alert for an id without a record answers with a structured
\* failure (success = false), sends nothing, changes nothing, and does not
\* end in an unhandled fault.
C4_ResolveAbsentIsStructuredFailure ==
    [][(last'.op = "resolve_alert" /\ last'.alert_id \notin Stored)
          => (/\ last'.status = 200
              /\ last'.body.success = FALSE
              /\ manualCalls' = manualCalls
              /\ files' = files)]_vars

\* C5: a fire whose backend request fails (another status, a timeout, a
\* connection error, any other error) answers with an error message, leaves
\* the store as it was and creates no task.
C5_FailedFireLeavesNoTrace ==
    [][(last'.op = "send_alert" /\ fireCalls' = 1 /\ last'.backend # "200")
          => (/\ last'.message_type = "error"
              /\ last'.message # "Alert sent successfully"
              /\ files' = files
              /\ tasks' = tasks
              /\ nextId' = nextId)]_vars

C5_Witness ==
    /\ last.op = "send_alert"
    /\ fireCalls = 1
    /\ last.backend = "500"
    /\ Stored # {}

\* C6: a fire whose backend request succeeded but whose record could not be
\* written is answered as failed.
C6_WriteErrorIsReportedAsFailure ==
    (last.op = "send_alert" /\ last.store = "OSError")
        => last.message_type = "error"

\* C7: a form with a required field blank after trimming, or with a severity
\* other than info, warning, critical, is rejected before any dispatch: no
\* backend request, no record, no task.
IsBlank(text) == \A i \in 1..Len(text) : text[i] = " "

IsInvalidForm(form) ==
    \/ \E f \in FieldNames : IsBlank(form[f])
    \/ form.severity \notin {INFO, WARNING, CRITICAL}

C7_InvalidFormIsRejectedBeforeDispatch ==
    [][(last'.op = "send_alert" /\ IsInvalidForm(last'.form))
          => (/\ fireCalls' = 0
              /\ last'.message_type = "error"
              /\ last'.form_data = last'.form
              /\ files' = files
              /\ tasks' = tasks
              /\ nextId' = nextId)]_vars

C7_Witness ==
    /\ last.op = "send_alert"
    /\ last.form.duration = <<" ">>
    /\ last.message_type = "error"
    /\ fireCalls = 0
    /\ Stored # {}

\* C8: a record's status only goes from active to resolved: a resolved record
\* stays resolved as long as it exists, only an active record is written as
\* resolved, and a record that appears is a new one (its id was never used),
\* so no record makes the transition twice.
C8_StatusOnlyActiveToResolved ==
    [][\A id \in Ids :
          /\ (id \in Stored /\ id \in DOMAIN files' /\ files'[id] # files[id])
                => (StatusOf(files, id) = "active"
                    /\ StatusOf(files', id) = "resolved")
          /\ (id \notin Stored /\ id \in DOMAIN files')
                => (id > nextId /\ StatusOf(files', id) = "active")]_vars

C8_Witness == \E id \in Stored : StatusOf(files, id) = "resolved"

C10_CloseAllVisitsEveryRecord ==
    [][(last'.op = "close_all_alerts")
          => (/\ \A id \in Ids :
                    manualCalls'[id] =
                        manualCalls[id] + (IF id \in Stored THEN 1 ELSE 0)
              /\ last'.body.closed_count + Len(last'.body.errors)
                    = Cardinality(Stored)
              /\ \A id \in Stored :
                    manualAcks'[id] = manualAcks[id]
                        => (id \in DOMAIN files' /\ files'[id] = files[id]))]_vars

C10_Witness ==
    /\ last.op = "close_all_alerts"
    /\ last.body.closed_count = 1
    /\ Len(last.body.errors) = 1
    /\ Cardinality(Stored) = 1

\* Half days between the last write of the file and the clock.
StorageAge(id) == now - files[id].mtime

\* C11: cleanup(days_old) removes exactly the records whose storage age
\* exceeds days_old days, leaves every other record unchanged, sends nothing
\* to the backend and returns the number of records it removed.
C11_CleanupRemovesExactlyTheOld ==
    [][last'.op = "cleanup_old_alerts"
          => LET old == {id \in Stored : StorageAge(id) > 2 * last'.days_old}
             IN  /\ DOMAIN files' = Stored \ old
                 /\ \A id \in Stored \ old : files'[id] = files[id]
                 /\ last'.body.removed_count = Cardinality(old)
                 /\ fireCalls' = 0
                 /\ timerCalls' = timerCalls
                 /\ manualCalls' = manualCalls]_vars

\* C12: a cleanup request directly after a cleanup request with the same
\* threshold, at the same reading of the clock, removes no record and leaves
\* the store as it is.
C12_CleanupIsIdempotent ==
    [][(/\ last.op = "cleanup_old_alerts"
        /\ last'.op = "cleanup_old_alerts"
        /\ last'.days_old = last.days_old)
          => (last'.body.removed_count = 0 /\ files' = files)]_vars

\* The second of two equal requests: the first removed a record and kept
\* another, the second removed none.
C12_Witness ==
    /\ last.op = "cleanup_old_alerts"
    /\ last.previous # <<>>
    /\ last.previous[1] >= 1
    /\ last.body.removed_count = 0
    /\ files # <<>>

\* C13: bulk-generate with a count sends exactly count fire requests, creates
\* one record and one task (with the request's duration) for each request the
\* backend answered 200 and none for the others, and reports as generated
\* count the number of requests answered 200.
C13_BulkGenerateCounts ==
    [][last'.op = "bulk_generate"
          => LET ok == {i \in 1..last'.count : last'.backend[i] = "200"}
                 created == DOMAIN files' \ Stored
                 armed == {id \in Ids : tasks[id].pc = "none"
                                         /\ tasks'[id].pc = "created"}
             IN  /\ fireCalls' = last'.count
                 /\ last'.generated_count = Cardinality(ok)
                 /\ Cardinality(created) = Cardinality(ok)
                 /\ armed = created
                 /\ \A id \in armed : tasks'[id].duration = last'.duration
                 /\ \A id \in Stored : id \in DOMAIN files'
                                         /\ files'[id] = files[id]]_vars

\* The unit letters and the seconds each stands for.
UnitSeconds(c) == CASE c = "s" -> 1 [] c = "m" -> 60 [] c = "h" -> 3600 [] OTHER -> 0

\* C14: parsing a duration never fails: an integer followed by s, m or h
\* gives the integer times 1, 60 or 3600 seconds, and every other string,
\* a unit letter after a malformed or missing number included, gives 300.
C14_ParseDurationIsTotal ==
    last.op = "parse_duration_to_seconds"
       => LET text == last.duration_str
              unit == IF text = <<>> THEN "" ELSE text[Len(text)]
              number == int(butlast(text))
          IN  /\ ~last.result.raised
              /\ last.result.seconds =
                    IF UnitSeconds(unit) > 0 /\ ~number.raised
                    THEN number.value * UnitSeconds(unit)
                    ELSE 300

\* C15: when the resolve request of a task fails, the record (if there is
\* one) stays in the store as it was, active and with auto_resolve_scheduled
\* true, and the task ends; a task that has ended sends no resolve request
\* and is not started again, so every later resolve request for the id comes
\* from resolve-alert or close-all.
C15_FailedTimerResolveIsFinal ==
    [][\A id \in Ids :
          /\ (/\ tasks[id].pc = "sleeping"
              /\ timerCalls'[id] = timerCalls[id] + 1
              /\ timerAcks'[id] = timerAcks[id])
                => (/\ tasks'[id].pc = "done"
                    /\ files' = files
                    /\ id \in Stored
                          => (/\ StatusOf(files', id) = "active"
                              /\ files'[id].json.auto_resolve_scheduled))
          /\ tasks[id].pc = "done"
                => (/\ tasks'[id] = tasks[id]
                    /\ timerCalls'[id] = timerCalls[id]
                    /\ resolveCalls(id)' > resolveCalls(id)
                          => last'.op \in {"resolve_alert", "close_all_alerts"})]_vars

\* A task has ended on a failed resolve request, its record is still stored
\* and active, and a manual resolve was then sent for it.
C15_Witness ==
    \E id \in Ids :
        /\ tasks[id].pc = "done"
        /\ timerCalls[id] = 1
        /\ timerAcks[id] = 0
        /\ manualCalls[id] = 1
        /\ manualAcks[id] = 0
        /\ id \in Stored
        /\ StatusOf(files, id) = "active"

\* C16: in every state, across restarts of the process too, every stored
\* record with auto_resolve_scheduled true whose task has not sent its
\* resolve and that no manual resolve has resolved has one task waiting to
\* resolve it.
C16_ScheduledRecordHasTimer ==
    \A id \in Stored :
        (/\ files[id].json.auto_resolve_scheduled
         /\ timerCalls[id] = 0
         /\ manualAcks[id] = 0)
           => tasks[id].pc \in {"created", "sleeping"}

\* C17: a record is removed by one resolve path only, and only after that
\* path's own resolve request for the alert was answered 200: the task
\* removes it after its own acknowledged resolve, resolve-alert and close-all
\* remove it in the step in which their request is acknowledged, and a record
\* that is gone is never removed (or stored) again.
C17_RemovedByOnePathAfterOwnAck ==
    [][\A id \in Ids :
          /\ (id \in Stored /\ id \notin DOMAIN files')
                => \/ /\ last'.op = "auto_resolve_alert"
                      /\ last'.alert_id = id
                      /\ timerAcks[id] >= 1
                      /\ manualAcks'[id] = manualAcks[id]
                   \/ /\ last'.op \in {"resolve_alert", "close_all_alerts"}
                      /\ manualAcks'[id] = manualAcks[id] + 1
                      /\ timerAcks'[id] = timerAcks[id]
          /\ (id <= nextId /\ id \notin Stored) => id \notin DOMAIN files']_vars

\* Both paths were acknowledged for one alert (the manual resolve came while
\* the task slept its last second) and the record is gone, removed once.
C17_Witness ==
    \E id \in Ids :
        /\ timerAcks[id] = 1
        /\ manualAcks[id] = 1
        /\ tasks[id].pc = "done"
        /\ id \notin Stored

\* C18: a fire whose backend request is answered 200 and whose file is
\* written creates exactly one new record, under an id never used before,
\* active and with auto_resolve_scheduled true, arms exactly one task for
\* that id with the duration of the request, and answers with a success
\* message; the handler dispatches first, then creates the record, then
\* arms the task.
C18_SuccessfulFire ==
    [][(last'.op = "send_alert" /\ last'.backend = "200" /\ last'.store = "written")
          => LET id == nextId'
                 form == last'.form
             IN  /\ id > nextId
                 /\ id \notin Stored
                 /\ tasks[id] = NoTask
                 /\ fireCalls' = 1
                 /\ DOMAIN files' = Stored \cup {id}
                 /\ \A x \in Stored : files'[x] = files[x]
                 /\ files'[id].json.id = id
                 /\ files'[id].json.status = "active"
                 /\ files'[id].json.auto_resolve_scheduled
                 /\ files'[id].json.summary = strip(form.summary)
                 /\ files'[id].json.duration = strip(form.duration)
                 /\ \A x \in Ids \ {id} : tasks'[x] = tasks[x]
                 /\ tasks'[id].pc = "created"
                 /\ tasks'[id].duration = strip(form.duration)
                 /\ last'.message_type = "success"
                 /\ last'.message = "Alert sent successfully"
                 /\ last'.calls = <<"send_alert_with_curl", "add_sent_alert",
                                    "create_task">>]_vars

\* A form padded with blanks was sent and answered 200 while another record
\* was stored: the new record and its task carry the trimmed duration.
C18_Witness ==
    /\ last.op = "send_alert"
    /\ last.backend = "200"
    /\ last.store = "written"
    /\ last.form.duration = <<" ", "1", "s">>
    /\ Cardinality(Stored) = 2
    /\ tasks[nextId].pc = "created"
    /\ tasks[nextId].duration = <<"1", "s">>

\* C19: a call of a dispatcher makes one backend request and returns success
\* exactly when the backend answered HTTP 200; after a timeout, a connection
\* error, another status or any other exception it returns failure with a
\* message that is not the success message.
C19_DispatcherClassifies ==
    last.op = "return"
       => /\ last.result.requests = 1
          /\ last.result.success <=> last.outcome = "200"
          /\ last.outcome # "200"
                => (/\ last.result.message # ""
                    /\ last.result.message
                          \notin {"Alert sent successfully",
                                  "Resolved alert sent successfully"})

\* The resolve dispatcher was answered with a status of the 2xx class that
\* is not 200, and reported failure.
C19_Witness ==
    /\ last.op = "return"
    /\ last.fn = "send_resolved_alert_with_curl"
    /\ last.outcome = "204"
    /\ ~last.result.success
    /\ last.result.requests = 1

\* C20: the payload has as labels alertname = summary, severity and service
\* with every caller label set on top (a caller label under a built-in key
\* replaces the value), as annotations summary and description with every
\* caller annotation set on top, and as endsAt nothing for a fire and the
\* current time for a resolve.
C20_PayloadLabels ==
    last.op = "return"
       => LET c == last.call
              p == last.payload
          IN  /\ DOMAIN p.labels
                    = {label_alertname, label_severity, label_service}
                          \cup DOMAIN c.custom_labels
              /\ \A k \in DOMAIN p.labels :
                    p.labels[k] =
                        IF k \in DOMAIN c.custom_labels THEN c.custom_labels[k]
                        ELSE IF k = label_alertname THEN c.summary
                        ELSE IF k = label_severity THEN c.severity
                        ELSE c.service
              /\ DOMAIN p.annotations
                    = {annotation_summary, annotation_description}
                          \cup DOMAIN c.custom_annotations
              /\ \A k \in DOMAIN p.annotations :
                    p.annotations[k] =
                        IF k \in DOMAIN c.custom_annotations
                        THEN c.custom_annotations[k]
                        ELSE IF k = annotation_summary THEN c.summary
                        ELSE c.description
              /\ p.endsAt = IF c.fn = "send_alert_with_curl" THEN <<>> ELSE <<now>>

\* A resolve payload in which the caller's severity label and summary
\* annotation replaced the built-in ones, sent after the clock had advanced.
C20_Witness ==
    /\ last.op = "return"
    /\ last.fn = "send_resolved_alert_with_curl"
    /\ now >= 1
    /\ last.payload.labels[label_severity] = <<"p">>
    /\ last.payload.annotations[annotation_summary] = <<"q">>
    /\ last.payload.labels[label_alertname] = last.call.summary
    /\ last.payload.endsAt = <<now>>

\* C21: under fair scheduling of the tasks and a backend that answers every
\* resolve with 200, every record that a successful fire stored, whatever
\* duration the form carried, is eventually gone from the store.
C21_EveryStoredAlertLeaves ==
    \A id \in Ids : (id \in DOMAIN files) ~> (id \notin DOMAIN files)

C25_ManualResolveKeepsTimer ==
    [][/\ last'.op \in {"resolve_alert", "close_all_alerts"} => tasks' = tasks
       /\ \A id \in Ids :
             (/\ last.op \in {"resolve_alert", "close_all_alerts"}
              /\ manualAcks[id] >= 1
              /\ tasks[id].pc = "sleeping")
                => ENABLED auto_resolve_wake(id, "200")]_vars

\* The task of an alert woke and sent its resolve after a manual resolve
\* had been acknowledged and had removed the record.
C25_Witness ==
    /\ last.op = "auto_resolve_alert"
    /\ last.at = "wake"
    /\ manualAcks[last.alert_id] = 1
    /\ timerCalls[last.alert_id] = 1
    /\ last.alert_id \notin Stored


\* C26: a step for one alert id (POST /resolve-alert/{id}, or a step of the
\* task of id: its wake, status update and removal) leaves the file and the
\* task of every other id as they were, makes no backend request for
\* another id, and the resolve request it makes is built from the record, or
\* from the task arguments, of id itself.
C26_OtherAlertsUntouched ==
    [][(last'.op \in {"resolve_alert", "auto_resolve_alert"})
          => LET id == last'.alert_id
             IN  /\ \A x \in Ids \ {id} :
                       /\ x \in DOMAIN files' <=> x \in Stored
                       /\ x \in Stored => files'[x] = files[x]
                       /\ tasks'[x] = tasks[x]
                       /\ timerCalls'[x] = timerCalls[x]
                       /\ manualCalls'[x] = manualCalls[x]
                       /\ timerAcks'[x] = timerAcks[x]
                       /\ manualAcks'[x] = manualAcks[x]
                 /\ (last'.op = "resolve_alert" /\ last'.status = 200)
                       => last'.payload = resolved_alert_data(files[id].json, now)
                 /\ (last'.op = "auto_resolve_alert" /\ last'.at = "wake")
                       => last'.payload = resolved_alert_data(tasks[id].args, now)]_vars

\* One alert was resolved by hand and removed while another alert, fired
\* with other labels, is stored with its task asleep.
C26_Witness ==
    /\ last.op = "resolve_alert"
    /\ last.status = 200
    /\ last.body.success
    /\ last.alert_id \notin Stored
    /\ \E x \in Stored :
          /\ x # last.alert_id
          /\ tasks[x].pc = "sleeping"
          /\ fireLabels[x] # fireLabels[last.alert_id]

\* C27: an id that was handed out and has no file in the store has none
\* after any step; a task that wakes for such an id gets False from
\* update_alert_status and the store is left as it was.
C27_NoResurrection ==
    [][/\ \A id \in Ids : (id <= nextId /\ id \notin Stored) => id \notin DOMAIN files'
       /\ (/\ last'.op = "auto_resolve_alert"
           /\ last'.at = "wake"
           /\ last'.alert_id \notin Stored)
             => /\ files' = files
                /\ ~update_alert_status(files, last'.alert_id, "resolved", now, now).ok]_vars

\* A task woke and its resolve was answered 200 for an id whose file a
\* manual resolve had removed before.
C27_Witness ==
    /\ last.op = "auto_resolve_alert"
    /\ last.at = "wake"
    /\ tasks[last.alert_id].pc = "grace"
    /\ timerAcks[last.alert_id] = 1
    /\ manualAcks[last.alert_id] = 1
    /\ last.alert_id \notin Stored

\* C28: the labels of every resolve request made for an id (by its task, by
\* POST /resolve-alert/{id} or by POST /close-all-alerts) are the labels of
\* the fire request that created the id, custom labels included, also when
\* a custom label replaces a built-in one.
C28_ResolveCarriesFireLabels ==
    [][/\ (last'.op = "auto_resolve_alert" /\ last'.at = "wake")
             => last'.payload.labels = fireLabels[last'.alert_id]
       /\ (last'.op = "resolve_alert" /\ last'.status = 200)
             => last'.payload.labels = fireLabels[last'.alert_id]
       /\ last'.op = "close_all_alerts"
             => \A id \in DOMAIN last'.payloads :
                   last'.payloads[id].labels = fireLabels[id]]_vars

\* The task of an alert fired with a custom severity label woke and sent its
\* resolve after a manual resolve had been sent for the same alert.
C28_Witness ==
    /\ last.op = "auto_resolve_alert"
    /\ last.at = "wake"
    /\ manualCalls[last.alert_id] = 1
    /\ last.payload.labels[label_severity] = <<"p">>
    /\ fireLabels[last.alert_id][label_severity] = <<"p">>

====
